---- MODULE Spec2Model ----
(***************************************************************************)
(* Ownership and lifetime of native geometry handles and contexts in       *)
(* src/geom.rs (GGeom): constructors, clone, derived operations,           *)
(* composition, set_context_handle, predicates, measures, readers and     *)
(* writers, coordinate sequences, threads and drop, over an engine that    *)
(* hands out handles and destroys a composite together with everything     *)
(* that became part of it.                                                 *)
(***************************************************************************)
EXTENDS Integers, Sequences, FiniteSets, TLC

\* how many GGeom values the caller holds at once; a polygon with MaxGeoms - 1
\* interior rings is the largest composition
MaxGeoms == 3

\* the return codes the engine's predicates are followed over: 0..MaxCode
MaxCode == 3

\* addresses the engine has for geometries, contexts and coordinate sequences
MaxHandles == MaxGeoms + 1

MaxCtx == MaxGeoms - 1

MaxBufs == MaxGeoms - 1

\* the references of one Arc are not followed beyond this
MaxRc == MaxGeoms + 1

\* the threads that work on GGeom values at the same time
MaxThreads == MaxGeoms - 1

\* the null pointer, the one value NonNull::new refuses
Null == 0

Handles == 1..MaxHandles
Ctxs == 1..MaxCtx
Bufs == 1..MaxBufs
Threads == 1..MaxThreads
Codes == 0..MaxCode

VARIABLES
  geoms,    \* the GGeom values the program holds, in the order of their handles' addresses
  handles,  \* native geometry address -> what the engine has there
  ctxs,     \* native context address -> whether it is live, how many references its
            \* Arc counts that will be dropped, and whether it counts forgotten ones
  bufs,     \* coordinate sequence address -> whether a buffer of its own is there
  seqs,     \* the CoordSeq values the program holds
  threads,  \* thread -> where it is in clone, a derived operation or drop
  last      \* the last call: operation, result, receiver, the engine's answer,
            \* the engine entry points called and the memory errors committed

vars == <<geoms, handles, ctxs, bufs, seqs, threads, last>>

Min(S) == CHOOSE x \in S : \A y \in S : x <= y

Range(q) == {q[i] : i \in DOMAIN q}

\* ------------------------------------------------------------------ GGeom
\* struct GGeom { ptr: NonNull<GEOSGeometry>, context: Arc<GContextHandle> }
GGeom(p, c) == [ptr |-> p, context |-> c]

\* the native memory an operation works on, with the engine entry points it
\* has called and the memory errors it has committed
World ==
  [handles |-> handles, ctxs |-> ctxs, bufs |-> bufs, seqs |-> seqs, errs |-> {}, calls |-> {}]

Called(w, f) == [w EXCEPT !.calls = @ \cup {f}]

Fault(w, e) == [w EXCEPT !.errs = @ \cup {e}]

\* ---------------------------------------------------------------- context
NoCtx == [st |-> "free", rc |-> 0, forgotten |-> FALSE]

CanInit(w) == \E c \in Ctxs : w.ctxs[c].st = "free"

FreshCtx(w) == Min({c \in Ctxs : w.ctxs[c].st = "free"})

\* GContextHandle::init(): one new native context, not yet shared
ContextInit(w) ==
  [w EXCEPT !.ctxs[FreshCtx(w)] = [st |-> "live", rc |-> 0, forgotten |-> FALSE]]

\* GContextHandle's destructor: the native context is released; the geometries
\* made through it are from then on without it
ContextRelease(w, c) ==
  IF w.ctxs[c].st = "free"
    THEN Fault(w, "context_released_twice")
    ELSE [w EXCEPT !.ctxs[c] = NoCtx,
                   !.handles = [h \in Handles |->
                                  IF w.handles[h].born = c
                                    THEN [w.handles[h] EXCEPT !.born = 0]
                                    ELSE w.handles[h]]]

\* Arc::new(context)
ArcNew(w, c) == [w EXCEPT !.ctxs[c].rc = 1]

\* Arc::clone: one more strong reference
ArcClone(w, c) == [w EXCEPT !.ctxs[c].rc = @ + 1]

\* dropping one Arc<GContextHandle>: the one that takes the strong count to
\* zero runs the destructor; a count that includes a forgotten reference never
\* gets there
ArcDrop(w, c) ==
  IF w.ctxs[c].rc <= 1 /\ ~w.ctxs[c].forgotten
    THEN ContextRelease(w, c)
    ELSE [w EXCEPT !.ctxs[c].rc = IF @ > 0 THEN @ - 1 ELSE 0]

\* mem::forget of a value holding an Arc<GContextHandle>: its reference stays
\* in the strong count and is never dropped
ArcForget(w, c) ==
  [w EXCEPT !.ctxs[c] = [@ EXCEPT !.rc = IF @ > 0 THEN @ - 1 ELSE 0, !.forgotten = TRUE]]

\* an engine entry point working through context c: c has to be there
Through(w, c, f) ==
  Called(IF w.ctxs[c].st = "free" THEN Fault(w, "context_used_after_release") ELSE w, f)

\* ----------------------------------------------------------------- engine
NoHandle == [st |-> "free", kind |-> "none", norm |-> FALSE, born |-> 0]

CanAlloc(w) == \E h \in Handles : w.handles[h].st = "free"

\* the engine hands out an address that is not in use
FreshHandle(w) == Min({h \in Handles : w.handles[h].st = "free"})

\* a geometry of kind k made through context c
EngineAlloc(w, k, n, c) ==
  [w EXCEPT !.handles[FreshHandle(w)] = [st |-> "live", kind |-> k, norm |-> n, born |-> c]]

\* GEOSGeom_destroy_r: the engine frees the geometry with everything that is
\* part of it. Freeing what is not allocated is an error.
GEOSGeom_destroy_r(w, h) ==
  LET w1 == Called(w, "GEOSGeom_destroy_r")
  IN IF h = Null \/ w.handles[h].st = "free"
       THEN Fault(w1, "geometry_destroyed_twice")
       ELSE [w1 EXCEPT !.handles[h] = NoHandle]

RECURSIVE DestroyEach(_, _)
DestroyEach(w, H) ==
  IF H = {} THEN w
  ELSE LET h == Min(H) IN DestroyEach(GEOSGeom_destroy_r(w, h), H \ {h})

\* -------------------------------------------------- coordinate sequences
NoBuf == [st |-> "free"]

CanAllocBufs(w, n) == Cardinality({b \in Bufs : w.bufs[b].st = "free"}) >= n

FreshBuf(w) == Min({b \in Bufs : w.bufs[b].st = "free"})

\* a new buffer, owned by the CoordSeq value that wraps it
BufAlloc(w) == [w EXCEPT !.bufs[FreshBuf(w)] = [st |-> "live"]]

\* GEOSCoordSeq_destroy, as CoordSeq's destructor calls it
BufFree(w, b) ==
  IF w.bufs[b].st = "free"
    THEN Fault(w, "sequence_freed_twice")
    ELSE [w EXCEPT !.bufs[b] = NoBuf]

\* a geometry built on a buffer owns it from then on: the buffer is part of
\* the geometry and goes when the geometry goes
BufAdopt(w, b) == [w EXCEPT !.bufs[b] = NoBuf]

\* ---------------------------------------------------------------- results
\* what a call left behind for the caller to see
\* (val: the number an Ok or an Err carries; slot: what the engine wrote to
\* the output slot it was given, if it wrote; trace: the reader's or writer's
\* entry points in the order they were called)
Call(op, res) ==
  [op |-> op, res |-> res, null |-> FALSE, kinds |-> {}, rv |-> 0, val |-> 0,
   slot |-> <<>>, trace |-> <<>>]

NoCall ==
  [op |-> "none", res |-> "none", null |-> FALSE, kinds |-> {}, rv |-> 0, val |-> 0,
   slot |-> <<>>, trace |-> <<>>, errs |-> {}, calls |-> {}]

\* a faulty new_from_raw, which wraps whatever pointer it is given
new_from_raw_unchecked(g, context) == [ok |-> TRUE, err |-> "Ok", geom |-> GGeom(g, context)]

\* GGeom::new_from_raw: Err(NoConstructionFromNullPtr) for a null pointer
new_from_raw(g, context) ==
  IF g = Null
    THEN [ok |-> FALSE, err |-> "NoConstructionFromNullPtr"]
    ELSE [ok |-> TRUE, err |-> "Ok", geom |-> GGeom(g, context)]

\* the caller keeps a GGeom it was returned
Keep(gs, r) == IF r.ok THEN Append(gs, r.geom) ELSE gs

HasRoom == Len(geoms) < MaxGeoms

Held == DOMAIN geoms

\* a thread that is in no operation
Idle == [pc |-> "idle", self |-> GGeom(Null, Null), ptr |-> Null, step |-> 0, destroyed |-> FALSE]

\* --------------------------------------------------------------- accounting
\* What no GGeom leads to any more, neither one the program holds nor one a
\* thread is working on, can never be destroyed or released: it is counted as
\* leaked and followed no further. A geometry made through a leaked context
\* keeps -1 for it: that context is never released.
Lost(w, gs, ths) ==
  LET busy == {t \in Threads : ths[t].pc # "idle"}
      reach == {gs[i].ptr : i \in DOMAIN gs}
                 \cup {ths[t].ptr : t \in busy} \cup {ths[t].self.ptr : t \in busy}
      used == {gs[i].context : i \in DOMAIN gs} \cup {ths[t].self.context : t \in busy}
  IN [H |-> {h \in Handles : w.handles[h].st = "live" /\ h \notin reach},
      C |-> {c \in Ctxs : w.ctxs[c].st = "live" /\ c \notin used},
      B |-> {b \in Bufs : w.bufs[b].st = "live" /\ b \notin {s.ptr : s \in Range(w.seqs)}}]

Leaks(lost) ==
  (IF lost.H # {} THEN {"geometry_leaked"} ELSE {})
    \cup (IF lost.C # {} THEN {"context_leaked"} ELSE {})
    \cup (IF lost.B # {} THEN {"sequence_leaked"} ELSE {})

\* the values held are a collection without an order of its own: they are
\* kept in the order of their handles' addresses
InOrder(gs) ==
  SortSeq(gs, LAMBDA a, b : a.ptr < b.ptr \/ (a.ptr = b.ptr /\ a.context < b.context))

\* the state after a step that left the native memory as w, the program
\* holding gs and the threads at ths
CommitT(w, gs, ths, res) ==
  \E v \in {w} : \E lost \in {Lost(v, gs, ths)} :
     /\ geoms' = InOrder(gs)
     /\ handles' = [h \in Handles |->
                      IF h \in lost.H THEN NoHandle
                      ELSE IF v.handles[h].born \in lost.C
                        THEN [v.handles[h] EXCEPT !.born = -1]
                      ELSE v.handles[h]]
     /\ ctxs' = [c \in Ctxs |-> IF c \in lost.C THEN NoCtx ELSE v.ctxs[c]]
     /\ bufs' = [b \in Bufs |-> IF b \in lost.B THEN NoBuf ELSE v.bufs[b]]
     /\ seqs' = v.seqs
     /\ threads' = ths
     /\ last' = [op |-> res.op, res |-> res.res, null |-> res.null, kinds |-> res.kinds,
                 rv |-> res.rv, val |-> res.val, slot |-> res.slot,
                 trace |-> res.trace,
                 errs |-> v.errs \cup Leaks(lost), calls |-> v.calls]

\* the state after a call made outside the threads
Commit(w, gs, res) == CommitT(w, gs, threads, res)

Init ==
  /\ geoms = <<>>
  /\ handles = [h \in Handles |-> NoHandle]
  /\ ctxs = [c \in Ctxs |-> NoCtx]
  /\ bufs = [b \in Bufs |-> NoBuf]
  /\ seqs = <<>>
  /\ threads = [t \in Threads |-> Idle]
  /\ last = NoCall

\* ----------------------------------------------- external representations
\* The engine's answer to a call that makes a geometry is its kind, or "null".
EnginePtr(w, answer) == IF answer = "null" THEN Null ELSE FreshHandle(w)

EngineMake(w, answer, c) == IF answer = "null" THEN w ELSE EngineAlloc(w, answer, FALSE, c)

\* engine calls made one after the other through the context c
RECURSIVE ThroughEach(_, _, _)
ThroughEach(w, c, fs) ==
  IF fs = <<>> THEN w ELSE ThroughEach(Through(w, c, Head(fs)), c, Tail(fs))

\* the reader of new_from_wkt: created, used for one read, destroyed
WKTReader == <<"GEOSWKTReader_create_r", "GEOSWKTReader_read_r", "GEOSWKTReader_destroy_r">>

\* GGeom::new_from_wkt; nul: the text has a 0 byte in it, which
\* CString::new(wkt).expect(..) panics on
new_from_wkt(initOk, nul, answer) ==
  IF ~initOk
    THEN Commit(World, geoms, Call("new_from_wkt", "InitializationError"))
    ELSE /\ CanInit(World)
         /\ answer # "null" /\ ~nul => HasRoom /\ CanAlloc(World)
         /\ LET context_handle == FreshCtx(World)
                w0 == ContextInit(World)
                w1 == ThroughEach(w0, context_handle, WKTReader)
                obj == EnginePtr(w1, answer)
                w2 == EngineMake(w1, answer, context_handle)
            IN IF nul
                 THEN \* the panic unwinds: context_handle is dropped
                      Commit(ContextRelease(w0, context_handle), geoms,
                             Call("new_from_wkt", "panic"))
                 ELSE IF obj = Null
                 THEN \* return Err before Arc::new: context_handle is dropped
                      Commit(ContextRelease(w2, context_handle), geoms,
                             [Call("new_from_wkt", "NoConstructionFromNullPtr")
                                EXCEPT !.null = TRUE, !.trace = WKTReader])
                 ELSE LET w3 == ArcNew(w2, context_handle)
                          r == new_from_raw(obj, context_handle)
                      IN Commit(IF r.ok THEN w3 ELSE ArcDrop(w3, context_handle),
                                Keep(geoms, r),
                                [Call("new_from_wkt", r.err) EXCEPT !.trace = WKTReader])

\* the common body of new_from_hex and new_from_wkb:
\* GGeom::new_from_raw(ptr, Arc::new(context))
FromBuf(op, read, initOk, answer) ==
  IF ~initOk
    THEN Commit(World, geoms, Call(op, "InitializationError"))
    ELSE /\ CanInit(World)
         /\ answer # "null" => HasRoom /\ CanAlloc(World)
         /\ LET context == FreshCtx(World)
                w1 == Through(ContextInit(World), context, read)
                ptr == EnginePtr(w1, answer)
                w2 == ArcNew(EngineMake(w1, answer, context), context)
                r == new_from_raw(ptr, context)
            IN Commit(IF r.ok THEN w2 ELSE ArcDrop(w2, context), Keep(geoms, r),
                      [Call(op, r.err) EXCEPT !.null = (ptr = Null)])

\* GGeom::new_from_hex
new_from_hex(initOk, answer) ==
  FromBuf("new_from_hex", "GEOSGeomFromHEX_buf_r", initOk, answer)

\* a faulty new_from_wkb, which expects the context to be there
new_from_wkb_expect(initOk, answer) ==
  IF ~initOk THEN Commit(World, geoms, Call("new_from_wkb", "panic"))
  ELSE FromBuf("new_from_wkb", "GEOSGeomFromWKB_buf_r", initOk, answer)

\* GGeom::new_from_wkb
new_from_wkb(initOk, answer) ==
  FromBuf("new_from_wkb", "GEOSGeomFromWKB_buf_r", initOk, answer)

\* ------------------------------------------------------------------- drop
\* a faulty drop, which gives the fields up before the engine's destroy
DropBodyFieldsFirst == <<"drop_fields", "GEOSGeom_destroy_r">>

\* impl Drop for GGeom: the body of drop, GEOSGeom_destroy_r(self.context,
\* self.ptr), runs first; after it the fields are dropped, the Arc among them
DropBody == <<"GEOSGeom_destroy_r", "drop_fields">>

DropStep(w, g, what) ==
  IF what = "GEOSGeom_destroy_r"
    THEN GEOSGeom_destroy_r(Through(w, g.context, "GEOSGeom_destroy_r"), g.ptr)
    ELSE ArcDrop(w, g.context)

DropGeom(w, g) == DropStep(DropStep(w, g, DropBody[1]), g, DropBody[2])

\* mem::forget(g): the destructor of g does not run, so its handle is not
\* destroyed and its reference to the context is not given up
mem_forget(w, g) == ArcForget(w, g.context)

RECURSIVE ForgetAll(_, _)
ForgetAll(w, vec) ==
  IF vec = <<>> THEN w ELSE ForgetAll(mem_forget(w, Head(vec)), Tail(vec))

\* the values at the positions S moved out of the caller's hands
Without(gs, S) ==
  LET RECURSIVE Pick(_)
      Pick(K) == IF K = {} THEN <<>> ELSE <<gs[Min(K)]>> \o Pick(K \ {Min(K)})
  IN Pick({i \in DOMAIN gs : i \notin S})

drop(i) ==
  /\ i \in Held
  /\ Commit(DropGeom(World, geoms[i]), Without(geoms, {i}),
            Call("drop", "Ok"))

\* ------------------------------------------------------------------ clone
\* a faulty clone_context, which copies the pointer without counting it
clone_context_uncounted(w, g) == w

\* GGeom::clone_context: Arc::clone(&self.context)
clone_context(w, g) == ArcClone(w, g.context)

\* a faulty clone, which copies the fields of self instead of asking the
\* engine for a geometry of its own
clone_shallow(i, ok) ==
  /\ i \in Held
  /\ HasRoom
  /\ ctxs[geoms[i].context].rc < MaxRc
  /\ Commit(clone_context(World, geoms[i]), Append(geoms, geoms[i]), Call("clone", "Ok"))

\* impl Clone for GGeom
clone(i, ok) ==
  /\ i \in Held
  /\ IF ok
       THEN /\ HasRoom
            /\ CanAlloc(World)
            /\ ctxs[geoms[i].context].rc < MaxRc
            /\ LET self == geoms[i]
                   w0 == Through(World, self.context, "GEOSGeom_clone_r")
                   ptr == FreshHandle(w0)
                   src == handles[self.ptr]
                   w1 == EngineAlloc(w0, src.kind, src.norm, self.context)
               IN Commit(clone_context(w1, self), Append(geoms, GGeom(ptr, self.context)),
                         Call("clone", "Ok"))
       ELSE \* NonNull::new(ptr).unwrap() panics on a null clone
            Commit(Through(World, geoms[i].context, "GEOSGeom_clone_r"), geoms,
                   [Call("clone", "Panic") EXCEPT !.null = TRUE])

\* ------------------------------------------------------ derived geometries
\* buffer, envelope, convex_hull, boundary, get_centroid, unary_union,
\* extract_unique_points, difference, sym_difference, union, intersection,
\* snap, voronoi: GGeom::new_from_raw(ptr, self.clone_context())
Derived(op, i, answer) ==
  /\ i \in Held
  /\ ctxs[geoms[i].context].rc < MaxRc
  /\ answer # "null" => HasRoom /\ CanAlloc(World)
  /\ LET self == geoms[i]
         w0 == Through(World, self.context, "GEOS_derived_r")
         ptr == EnginePtr(w0, answer)
         w1 == clone_context(EngineMake(w0, answer, self.context), self)
         r == new_from_raw(ptr, self.context)
     IN Commit(IF r.ok THEN w1 ELSE ArcDrop(w1, self.context), Keep(geoms, r),
               [Call(op, r.err) EXCEPT !.null = (ptr = Null)])

\* the derived operations on one geometry
derived_unary(i, answer) == Derived("derived_unary", i, answer)

\* a faulty binary operation, whose result carries the context of the peer
derived_binary_of_peer(i, other, answer) ==
  /\ i \in Held
  /\ other \in Held
  /\ Derived("derived_binary", other, answer)

\* the derived operations that borrow a second geometry
derived_binary(i, other, answer) ==
  /\ other \in Held
  /\ Derived("derived_binary", i, answer)

\* ------------------------------------------------------ set_context_handle
\* GGeom::set_context_handle: self.context = Arc::new(context); the Arc held
\* before is dropped
set_context_handle(i) ==
  /\ i \in Held
  /\ CanInit(World)
  /\ LET context == FreshCtx(World)
         w1 == ArcNew(ContextInit(World), context)
     IN Commit(ArcDrop(w1, geoms[i].context), [geoms EXCEPT ![i].context = context],
               Call("set_context_handle", "Ok"))

\* ------------------------------------------------- predicates and normalize
\* check_geos_predicate: 0 is false, 1 is true, anything else an error
check_geos_predicate(val) ==
  IF val = 1 THEN "Ok(true)" ELSE IF val = 0 THEN "Ok(false)" ELSE "Err(GeosError)"

\* a call that only reads the receiver (and a second geometry it borrows)
\* through the receiver's context
Query(op, f, i, rv, res) ==
  /\ i \in Held
  /\ Commit(Through(World, geoms[i].context, f), geoms,
            [Call(op, res) EXCEPT !.rv = rv])

Query2(op, f, i, g2, rv, res) ==
  /\ g2 \in Held
  /\ Query(op, f, i, rv, res)

is_ring(i, rv) == Query("is_ring", "GEOSisRing_r", i, rv, check_geos_predicate(rv))

intersects(i, g2, rv) ==
  Query2("intersects", "GEOSIntersects_r", i, g2, rv, check_geos_predicate(rv))

crosses(i, g2, rv) == Query2("crosses", "GEOSCrosses_r", i, g2, rv, check_geos_predicate(rv))

disjoint(i, g2, rv) == Query2("disjoint", "GEOSDisjoint_r", i, g2, rv, check_geos_predicate(rv))

touches(i, g2, rv) == Query2("touches", "GEOSTouches_r", i, g2, rv, check_geos_predicate(rv))

overlaps(i, g2, rv) == Query2("overlaps", "GEOSOverlaps_r", i, g2, rv, check_geos_predicate(rv))

within(i, g2, rv) == Query2("within", "GEOSWithin_r", i, g2, rv, check_geos_predicate(rv))

equals(i, g2, rv) == Query2("equals", "GEOSEquals_r", i, g2, rv, check_geos_predicate(rv))

equals_exact(i, g2, rv) ==
  Query2("equals_exact", "GEOSEqualsExact_r", i, g2, rv, check_geos_predicate(rv))

covers(i, g2, rv) == Query2("covers", "GEOSCovers_r", i, g2, rv, check_geos_predicate(rv))

covered_by(i, g2, rv) ==
  Query2("covered_by", "GEOSCoveredBy_r", i, g2, rv, check_geos_predicate(rv))

contains(i, g2, rv) == Query2("contains", "GEOSContains_r", i, g2, rv, check_geos_predicate(rv))

is_empty(i, rv) == Query("is_empty", "GEOSisEmpty_r", i, rv, check_geos_predicate(rv))

is_simple(i, rv) == Query("is_simple", "GEOSisSimple_r", i, rv, check_geos_predicate(rv))

\* a faulty has_z, which compares the engine's code with 1 as is_valid does
has_z_raw(i, rv) ==
  Query("has_z", "GEOSHasZ_r", i, rv, IF rv = 1 THEN "Ok(true)" ELSE "Ok(false)")

has_z(i, rv) == Query("has_z", "GEOSHasZ_r", i, rv, check_geos_predicate(rv))

is_closed(i, rv) == Query("is_closed", "GEOSisClosed_r", i, rv, check_geos_predicate(rv))

\* GGeom::is_valid: GEOSisValid_r(..) == 1, a plain bool
is_valid(i, rv) ==
  Query("is_valid", "GEOSisValid_r", i, rv, IF rv = 1 THEN "true" ELSE "false")

\* GGeom::normalize: GEOSNormalize_r returns 0 on success and -1 on exception,
\* and the code goes through check_geos_predicate
normalize(i, ok) ==
  /\ i \in Held
  /\ LET self == geoms[i]
         ret_val == IF ok THEN 0 ELSE -1
         w0 == Through(World, self.context, "GEOSNormalize_r")
         w1 == IF ok THEN [w0 EXCEPT !.handles[self.ptr].norm = TRUE] ELSE w0
     IN Commit(w1, geoms, [Call("normalize", check_geos_predicate(ret_val))
                             EXCEPT !.rv = ret_val])

\* ------------------------------------------- from a coordinate sequence
\* how an engine call that makes a geometry of what it is given can end: the
\* geometry is made, or the answer is null and what was given has been
\* destroyed by the engine, or the answer is null and it has been left alone
Outcomes == {"made", "null_freed", "null_kept"}

\* GGeom::create_point: the engine gets a clone of s, and s is dropped when the
\* function returns. What the engine does with a sequence it made no geometry
\* of is the engine's choice.
create_point(initOk, out) ==
  /\ CanAllocBufs(World, 2)
  /\ LET ok == out = "made"
         engineFrees == out = "null_freed"
         s == FreshBuf(World)
         w0 == BufAlloc(World)
     IN IF ~initOk
          THEN Commit(BufFree(w0, s), geoms, Call("create_point", "InitializationError"))
          ELSE /\ CanInit(World)
               /\ ok => HasRoom /\ CanAlloc(World)
               /\ LET context_handle == FreshCtx(w0)
                      w1 == Through(ContextInit(w0), context_handle, "GEOSCoordSeq_clone_r")
                      coords == FreshBuf(w1)
                      w2 == Called(BufAlloc(w1), "GEOSGeom_createPoint_r")
                      ptr == IF ok THEN FreshHandle(w2) ELSE Null
                      w3 == IF ok THEN BufAdopt(EngineAlloc(w2, "Point", FALSE, context_handle),
                                                coords)
                            ELSE IF engineFrees THEN BufFree(w2, coords) ELSE w2
                      w4 == ArcNew(w3, context_handle)
                      r == new_from_raw(ptr, context_handle)
                      w5 == IF r.ok THEN w4 ELSE ArcDrop(w4, context_handle)
                  IN Commit(BufFree(w5, s), Keep(geoms, r),
                            [Call("create_point", r.err) EXCEPT !.null = (ptr = Null)])

\* the common body of create_line_string and create_linear_ring: the engine
\* gets s itself, and mem::forget(s)
FromSeq(op, make, kind, initOk, out) ==
  /\ CanAllocBufs(World, 1)
  /\ LET ok == out = "made"
         engineFrees == out = "null_freed"
         s == FreshBuf(World)
         w0 == BufAlloc(World)
     IN IF ~initOk
          THEN Commit(BufFree(w0, s), geoms, Call(op, "InitializationError"))
          ELSE /\ CanInit(World)
               /\ ok => HasRoom /\ CanAlloc(World)
               /\ LET context_handle == FreshCtx(w0)
                      w1 == Through(ContextInit(w0), context_handle, make)
                      ptr == IF ok THEN FreshHandle(w1) ELSE Null
                      w2 == IF ok THEN BufAdopt(EngineAlloc(w1, kind, FALSE, context_handle), s)
                            ELSE IF engineFrees THEN BufFree(w1, s) ELSE w1
                      w3 == ArcNew(w2, context_handle)
                      r == new_from_raw(ptr, context_handle)
                  IN Commit(IF r.ok THEN w3 ELSE ArcDrop(w3, context_handle), Keep(geoms, r),
                            [Call(op, r.err) EXCEPT !.null = (ptr = Null)])

\* GGeom::create_line_string
create_line_string(initOk, out) ==
  FromSeq("create_line_string", "GEOSGeom_createLineString_r", "LineString", initOk, out)

\* GGeom::create_linear_ring
create_linear_ring(initOk, out) ==
  FromSeq("create_linear_ring", "GEOSGeom_createLinearRing_r", "LinearRing", initOk, out)

\* ------------------------------------------------------------ composition
\* the vectors of distinct GGeom values the caller can move into a call
Injective(q) == \A i, j \in DOMAIN q : i # j => q[i] # q[j]

Vecs(S, n) == {q \in UNION {[1..k -> S] : k \in 0..n} : Injective(q)}

\* one pointer-sized word of memory: a geometry handle or the address of an Arc
Word(t, v) == [t |-> t, v |-> v]

\* struct GGeom has no repr attribute: the order of its two fields in memory
\* is the compiler's choice
Layouts == {"ptr_first", "ctx_first"}

\* the layouts that make a difference to a call reading the vector q: none
\* does when the vector is empty
LayoutsRead(q) == IF q = <<>> THEN {"ptr_first"} ELSE Layouts

\* the two words of a GGeom value, in the order they are laid out
Fields(g, layout) ==
  IF layout = "ptr_first"
    THEN <<Word("geom", g.ptr), Word("arc", g.context)>>
    ELSE <<Word("arc", g.context), Word("geom", g.ptr)>>

\* interiors.as_mut_ptr() as *mut *mut GEOSGeometry: the first nb words of the
\* vector's memory, whose elements are GGeom values of two words each
as_mut_ptr(interiors, nb, layout) ==
  [k \in 1..nb |-> Fields(interiors[(k + 1) \div 2], layout)[((k - 1) % 2) + 1]]

GeomWords(arr) == {arr[k].v : k \in {j \in DOMAIN arr : arr[j].t = "geom"}}

\* GEOSGeom_createPolygon_r / GEOSGeom_createCollection_r: on success a new
\* geometry that the geometries given are part of from then on (their memory
\* is the composite's and goes when it goes); on failure null, and the
\* geometries given are destroyed or left alone, as the engine's version does.
\* A word that is no geometry handle corrupts the engine's memory.
EngineCompose(w, kind, c, given, junk, ok, engineFrees) ==
  LET w1 == IF junk THEN Fault(w, "engine_given_a_non_geometry") ELSE w
      p == FreshHandle(w)
  IN IF ok
       THEN [w1 EXCEPT !.handles =
               [x \in Handles |->
                  IF x = p THEN [st |-> "live", kind |-> kind, norm |-> FALSE, born |-> c]
                  ELSE IF x \in given THEN NoHandle
                  ELSE w.handles[x]]]
       ELSE IF engineFrees THEN DestroyEach(w1, given) ELSE w1

\* the engine makes a polygon of nothing but linear rings
IsRing(w, h) == w.handles[h].st = "live" /\ w.handles[h].kind = "LinearRing"

\* a faulty signature, which borrows the rings instead of taking them
MovedNone(e, ints) == {}

\* create_polygon takes exterior and interiors by value: the caller holds
\* them no more
Moved(e, ints) == {e} \cup Range(ints)

\* GGeom::create_polygon; mem::forget(exterior) and mem::forget(i) for every
\* interior
create_polygon(e, ints, layout, out) ==
  /\ e \in Held
  /\ out = "made" =>
       /\ CanAlloc(World)
       /\ \A h \in {geoms[e].ptr}
                    \cup GeomWords(as_mut_ptr([k \in DOMAIN ints |-> geoms[ints[k]]],
                                              Len(ints), layout)) : IsRing(World, h)
  /\ ctxs[geoms[e].context].rc < MaxRc
  /\ LET ok == out = "made"
         engineFrees == out = "null_freed"
         exterior == geoms[e]
         interiors == [k \in DOMAIN ints |-> geoms[ints[k]]]
         nb_interiors == Len(ints)
         context_handle == exterior.context
         w1 == Through(clone_context(World, exterior), context_handle,
                       "GEOSGeom_createPolygon_r")
         holes == as_mut_ptr(interiors, nb_interiors, layout)
         ptr == IF ok THEN FreshHandle(World) ELSE Null
         w2 == EngineCompose(w1, "Polygon", context_handle, {exterior.ptr} \cup GeomWords(holes),
                             \E k \in DOMAIN holes : holes[k].t = "arc", ok, engineFrees)
         r == new_from_raw(ptr, context_handle)
     IN Commit(ForgetAll(IF r.ok THEN w2 ELSE ArcDrop(w2, context_handle),
                         <<exterior>> \o interiors),
               Keep(Without(geoms, Moved(e, ints)), r),
               [Call("create_polygon", r.err) EXCEPT !.null = (ptr = Null)])

\* GEOSGeomTypeId_r through GGeom::geometry_type
geometry_type(g) == handles[g.ptr].kind

\* check_same_geometry_type: every geometry of the vector has the kind asked for
check_same_geometry_type(vec, kind) == \A k \in DOMAIN vec : geometry_type(vec[k]) = kind

\* a Vec<GGeom> going out of scope: each element is dropped in turn
RECURSIVE DropAll(_, _)
DropAll(w, vec) ==
  IF vec = <<>> THEN w ELSE DropAll(DropGeom(w, Head(vec)), Tail(vec))

\* create_multi_geom: the children's handles go to GEOSGeom_createCollection_r,
\* the composite carries the first child's context (a new one for no children),
\* and every child is forgotten
create_multi_geom(op, sl, output_type) ==
  \E out \in Outcomes :
  /\ out = "made" => CanAlloc(World) /\ Len(geoms) - Len(sl) < MaxGeoms
  /\ sl = <<>> => CanInit(World)
  /\ sl # <<>> => ctxs[geoms[sl[1]].context].rc < MaxRc
  /\ LET ok == out = "made"
         engineFrees == out = "null_freed"
         vec == [k \in DOMAIN sl |-> geoms[sl[k]]]
         context == IF sl = <<>> THEN FreshCtx(World) ELSE vec[1].context
         w1 == Through(IF sl = <<>> THEN ArcNew(ContextInit(World), context)
                                    ELSE clone_context(World, vec[1]),
                       context, "GEOSGeom_createCollection_r")
         given == {vec[k].ptr : k \in DOMAIN vec}
         ptr == IF ok THEN FreshHandle(World) ELSE Null
         w2 == EngineCompose(w1, output_type, context, given, FALSE, ok, engineFrees)
         r == new_from_raw(ptr, context)
     IN Commit(ForgetAll(IF r.ok THEN w2 ELSE ArcDrop(w2, context), vec),
               Keep(Without(geoms, Range(sl)), r),
               [Call(op, r.err) EXCEPT !.null = (ptr = Null),
                                       !.kinds = {geometry_type(vec[k]) : k \in DOMAIN vec}])

\* a faulty rejection, which hands the vector back to the caller
KindMismatchKeeps(op, sl) ==
  LET vec == [k \in DOMAIN sl |-> geoms[sl[k]]]
  IN Commit(World, geoms,
            [Call(op, "ImpossibleOperation")
               EXCEPT !.kinds = {geometry_type(vec[k]) : k \in DOMAIN vec}])

\* return Err(ImpossibleOperation(..)): no engine call composes anything; the
\* vector the function was given goes out of scope
KindMismatch(op, sl) ==
  LET vec == [k \in DOMAIN sl |-> geoms[sl[k]]]
  IN Commit(DropAll(World, vec), Without(geoms, Range(sl)),
            [Call(op, "ImpossibleOperation")
               EXCEPT !.kinds = {geometry_type(vec[k]) : k \in DOMAIN vec}])

\* GGeom::create_geometrycollection
create_geometrycollection(sl) ==
  create_multi_geom("create_geometrycollection", sl, "GeometryCollection")

\* a faulty create_multipolygon, which composes without looking at the kinds
create_multipolygon_unchecked(sl) ==
  create_multi_geom("create_multipolygon", sl, "MultiPolygon")

\* GGeom::create_multipolygon
create_multipolygon(sl) ==
  IF ~check_same_geometry_type([k \in DOMAIN sl |-> geoms[sl[k]]], "Polygon")
    THEN KindMismatch("create_multipolygon", sl)
    ELSE create_multi_geom("create_multipolygon", sl, "MultiPolygon")

\* GGeom::create_multilinestring
create_multilinestring(sl) ==
  IF ~check_same_geometry_type([k \in DOMAIN sl |-> geoms[sl[k]]], "LineString")
    THEN KindMismatch("create_multilinestring", sl)
    ELSE create_multi_geom("create_multilinestring", sl, "MultiLineString")

\* GGeom::create_multipoint
create_multipoint(sl) ==
  IF ~check_same_geometry_type([k \in DOMAIN sl |-> geoms[sl[k]]], "Point")
    THEN KindMismatch("create_multipoint", sl)
    ELSE create_multi_geom("create_multipoint", sl, "MultiPoint")

\* ---------------------------------------------------------------- threads
\* GGeom is Send and Sync: threads clone, derive from and drop GGeom values
\* that share a context. A call is two steps where it touches the Arc's count
\* after the engine call; the count itself changes atomically.
Borrowing == {"clone", "derived"}

Borrowed(g) ==
  \E u \in Threads : threads[u].pc \in Borrowing \cup {"is_valid"} /\ threads[u].self = g

\* the Arc::clone calls that threads in a call have still to make on context c
Pending(c) ==
  Cardinality({u \in Threads : threads[u].pc \in Borrowing /\ threads[u].self.context = c})

\* the GGeom values that threads in a call are about to return
InHand == Cardinality({u \in Threads : threads[u].pc \in Borrowing /\ threads[u].ptr # Null})

At(t, pc, g, p) == [threads EXCEPT ![t] = [pc |-> pc, self |-> g, ptr |-> p, step |-> 1,
                                           destroyed |-> FALSE]]

\* clone, up to the engine's answer: GEOSGeom_clone_r(self.context, self.ptr)
clone_call(t, i) ==
  /\ threads[t].pc = "idle"
  /\ i \in Held
  /\ Len(geoms) + InHand < MaxGeoms
  /\ CanAlloc(World)
  /\ ctxs[geoms[i].context].rc + Pending(geoms[i].context) < MaxRc
  /\ LET self == geoms[i]
         w0 == Through(World, self.context, "GEOSGeom_clone_r")
         src == handles[self.ptr]
     IN CommitT(EngineAlloc(w0, src.kind, src.norm, self.context), geoms,
                At(t, "clone", self, FreshHandle(w0)),
                Call("clone_call", "Ok"))

\* clone, from self.clone_context() to the return
clone_return(t) ==
  /\ threads[t].pc = "clone"
  /\ LET th == threads[t]
     IN CommitT(clone_context(World, th.self), Append(geoms, GGeom(th.ptr, th.self.context)),
                [threads EXCEPT ![t] = Idle],
                Call("clone", "Ok"))

\* a derived operation, up to the engine's answer
derived_call(t, i, answer) ==
  /\ threads[t].pc = "idle"
  /\ i \in Held
  /\ answer # "null" => Len(geoms) + InHand < MaxGeoms /\ CanAlloc(World)
  /\ ctxs[geoms[i].context].rc + Pending(geoms[i].context) < MaxRc
  /\ LET self == geoms[i]
         w0 == Through(World, self.context, "GEOS_derived_r")
     IN CommitT(EngineMake(w0, answer, self.context), geoms,
                At(t, "derived", self, EnginePtr(w0, answer)),
                Call("derived_call", "Ok"))

\* a derived operation, from self.clone_context() to the return
derived_return(t) ==
  /\ threads[t].pc = "derived"
  /\ LET th == threads[t]
         w1 == clone_context(World, th.self)
         r == new_from_raw(th.ptr, th.self.context)
     IN CommitT(IF r.ok THEN w1 ELSE ArcDrop(w1, th.self.context), Keep(geoms, r),
                [threads EXCEPT ![t] = Idle],
                [Call("derived_unary", r.err) EXCEPT !.null = (th.ptr = Null)])

\* a GGeom no thread borrows goes out of scope in thread t
drop_call(t, i) ==
  /\ threads[t].pc = "idle"
  /\ i \in Held
  /\ ~Borrowed(geoms[i])
  /\ CommitT(World, Without(geoms, {i}), At(t, "drop", geoms[i], Null),
             Call("drop_call", "Ok"))

\* where thread t is after the step of drop it was at
After(th) == IF th.step >= Len(DropBody) THEN Idle ELSE [th EXCEPT !.step = @ + 1]

\* one step of drop: the engine's destroy, or the Arc's count going down by
\* one (the thread that took it to zero has the destructor to run)
drop_step(t) ==
  /\ threads[t].pc = "drop"
  /\ LET th == threads[t]
         c == th.self.context
     IN IF DropBody[th.step] = "GEOSGeom_destroy_r"
          THEN CommitT(DropStep(World, th.self, "GEOSGeom_destroy_r"), geoms,
                       [threads EXCEPT ![t] = After([th EXCEPT !.destroyed = TRUE])],
                       Call("GEOSGeom_destroy_r", "Ok"))
          ELSE IF ctxs[c].rc = 0
                 THEN CommitT(Fault(World, "count_below_zero"), geoms,
                              [threads EXCEPT ![t] = After(th)],
                              Call("fetch_sub", "Ok"))
                 ELSE CommitT([World EXCEPT !.ctxs[c].rc = @ - 1], geoms,
                              [threads EXCEPT ![t] = IF ctxs[c].rc = 1 /\ ~ctxs[c].forgotten
                                                       THEN [th EXCEPT !.pc = "release"]
                                                       ELSE After(th)],
                              Call("fetch_sub", "Ok"))

\* the thread that gave up the last reference runs GContextHandle's destructor
release(t) ==
  /\ threads[t].pc = "release"
  /\ LET th == threads[t]
     IN CommitT(ContextRelease(World, th.self.context), geoms,
                [threads EXCEPT ![t] = After([th EXCEPT !.pc = "drop"])],
                Call("release", "Ok"))

\* --------------------------------------------------------- specifications
\* what the readers are given in each specification
Ring == {"LinearRing", "null"}

Parts == {"Point", "LineString", "Polygon", "null"}

\* ownership: construction, clone, derived operations, set_context_handle,
\* create_polygon and drop
Next ==
  \/ \E initOk \in BOOLEAN, answer \in Ring : new_from_wkt(initOk, FALSE, answer)
  \/ \E i \in Held : drop(i)
  \/ \E i \in Held, ok \in BOOLEAN : clone(i, ok)
  \/ \E i \in Held, answer \in Ring : derived_unary(i, answer)
  \/ \E i \in Held : set_context_handle(i)
  \/ \E e \in Held, out \in Outcomes :
       \E ints \in Vecs(Held \ {e}, MaxGeoms - 1) :
         \E layout \in LayoutsRead(ints) : create_polygon(e, ints, layout, out)

Spec == Init /\ [][Next]_vars

\* every way a GGeom is constructed
NextConstruct ==
  \/ \E initOk \in BOOLEAN, answer \in Ring : new_from_wkt(initOk, FALSE, answer)
  \/ \E initOk \in BOOLEAN, answer \in Ring : new_from_hex(initOk, answer)
  \/ \E initOk \in BOOLEAN, answer \in Ring : new_from_wkb(initOk, answer)
  \/ \E initOk \in BOOLEAN, out \in Outcomes : create_point(initOk, out)
  \/ \E initOk \in BOOLEAN, out \in Outcomes : create_line_string(initOk, out)
  \/ \E initOk \in BOOLEAN, out \in Outcomes : create_linear_ring(initOk, out)
  \/ \E e \in Held, out \in Outcomes :
       \E ints \in Vecs(Held \ {e}, MaxGeoms - 1) :
         \E layout \in LayoutsRead(ints) : create_polygon(e, ints, layout, out)
  \/ \E i \in Held, answer \in Ring : derived_unary(i, answer)
  \/ \E i \in Held, other \in Held, answer \in Ring : derived_binary(i, other, answer)
  \/ \E i \in Held : drop(i)

SpecConstruct == Init /\ [][NextConstruct]_vars

\* composition of collections
NextMulti ==
  \/ \E initOk \in BOOLEAN, answer \in Parts : new_from_wkt(initOk, FALSE, answer)
  \/ \E sl \in Vecs(Held, MaxGeoms) : create_geometrycollection(sl)
  \/ \E sl \in Vecs(Held, MaxGeoms) : create_multipolygon(sl)
  \/ \E sl \in Vecs(Held, MaxGeoms) : create_multilinestring(sl)
  \/ \E sl \in Vecs(Held, MaxGeoms) : create_multipoint(sl)
  \/ \E i \in Held : drop(i)

SpecMulti == Init /\ [][NextMulti]_vars

\* clone and what changes a geometry in place
NextClone ==
  \/ \E initOk \in BOOLEAN, answer \in Ring : new_from_wkt(initOk, FALSE, answer)
  \/ \E i \in Held, ok \in BOOLEAN : clone(i, ok)
  \/ \E i \in Held, ok \in BOOLEAN : normalize(i, ok)
  \/ \E i \in Held : drop(i)

SpecClone == Init /\ [][NextClone]_vars

\* threads on GGeom values that share contexts
NextThreads ==
  \/ \E initOk \in BOOLEAN, answer \in Ring : new_from_wkt(initOk, FALSE, answer)
  \/ \E t \in Threads, i \in Held : clone_call(t, i)
  \/ \E t \in Threads : clone_return(t)
  \/ \E t \in Threads, i \in Held, answer \in Ring : derived_call(t, i, answer)
  \/ \E t \in Threads : derived_return(t)
  \/ \E t \in Threads, i \in Held : drop_call(t, i)
  \/ \E t \in Threads : drop_step(t)
  \/ \E t \in Threads : release(t)

SpecThreads == Init /\ [][NextThreads]_vars

\* the predicates over the engine's return codes
NextPred ==
  \/ \E initOk \in BOOLEAN, answer \in Ring : new_from_wkt(initOk, FALSE, answer)
  \/ \E i \in Held : drop(i)
  \/ \E i \in Held, rv \in Codes : is_ring(i, rv)
  \/ \E i \in Held, g2 \in Held, rv \in Codes : intersects(i, g2, rv)
  \/ \E i \in Held, g2 \in Held, rv \in Codes : crosses(i, g2, rv)
  \/ \E i \in Held, g2 \in Held, rv \in Codes : disjoint(i, g2, rv)
  \/ \E i \in Held, g2 \in Held, rv \in Codes : touches(i, g2, rv)
  \/ \E i \in Held, g2 \in Held, rv \in Codes : overlaps(i, g2, rv)
  \/ \E i \in Held, g2 \in Held, rv \in Codes : within(i, g2, rv)
  \/ \E i \in Held, g2 \in Held, rv \in Codes : equals(i, g2, rv)
  \/ \E i \in Held, g2 \in Held, rv \in Codes : equals_exact(i, g2, rv)
  \/ \E i \in Held, g2 \in Held, rv \in Codes : covers(i, g2, rv)
  \/ \E i \in Held, g2 \in Held, rv \in Codes : covered_by(i, g2, rv)
  \/ \E i \in Held, g2 \in Held, rv \in Codes : contains(i, g2, rv)
  \/ \E i \in Held, rv \in Codes : is_empty(i, rv)
  \/ \E i \in Held, rv \in Codes : is_simple(i, rv)
  \/ \E i \in Held, rv \in Codes : has_z(i, rv)
  \/ \E i \in Held, rv \in Codes : is_closed(i, rv)
  \/ \E i \in Held, rv \in Codes : is_valid(i, rv)

SpecPred == Init /\ [][NextPred]_vars

\* ------------------------------------------------------------- properties
Memory == {"geometry_leaked", "geometry_destroyed_twice"}

\* C1: on every call that returns a geometry or succeeds, no native geometry
\* handle has been destroyed twice and none has been left without anything
\* that will ever destroy it (destroyed exactly once, by GGeom::drop or with
\* the composite it is part of).
C1_DestroyedExactlyOnce == last.res = "Ok" => last.errs \cap Memory = {}

\* C2: no native geometry handle has more than one live owner: two GGeom values
\* held never have the same ptr, and the ptr of a GGeom held is a geometry of
\* its own, not one that has become part of a composite.
C2_SoleOwner ==
  /\ \A i, j \in Held : i # j => geoms[i].ptr # geoms[j].ptr
  /\ \A i \in Held : geoms[i].ptr \in Handles /\ handles[geoms[i].ptr].st = "live"

\* a polygon has been made of a ring and an interior while another GGeom is held
C2_Witness ==
  /\ last.op = "create_polygon"
  /\ last.res = "Ok"
  /\ Len(geoms) = 2
  /\ \E i \in Held : handles[geoms[i].ptr].kind = "Polygon"

\* C3 as stated: for every native geometry handle that is alive, the native
\* context through which it was created has not been released.
C3_BornContextLive == \A h \in Handles : handles[h].st = "live" => handles[h].born # 0

\* C3: for every GGeom held, the native context its context field refers to has
\* not been released, and the Arc counts the reference.
C3_HeldContextLive ==
  \A i \in Held : /\ geoms[i].context \in Ctxs
                  /\ ctxs[geoms[i].context].st = "live"
                  /\ ctxs[geoms[i].context].rc >= 1

\* set_context_handle has replaced the context of a geometry whose first
\* context is gone
C3_Witness ==
  /\ last.op = "set_context_handle"
  /\ \E i \in Held : handles[geoms[i].ptr].born = 0 /\ ctxs[geoms[i].context].st = "live"

\* C4: whatever the interleaving of clone, derived operations and drop in
\* threads on GGeom values that share a context, the native context is
\* released at most once, only when no reference is counted any more, never
\* while a GGeom that refers to it is held or in a call, and in drop the
\* engine's destroy, which uses the context, comes before the reference to the
\* context is given up.
C4_Inv ==
  /\ "context_released_twice" \notin last.errs
  /\ "context_used_after_release" \notin last.errs
  /\ \A i \in Held : ctxs[geoms[i].context].st = "live"
  /\ \A t \in Threads :
       /\ threads[t].pc \in Borrowing => ctxs[threads[t].self.context].st = "live"
       /\ threads[t].pc = "drop" /\ ~threads[t].destroyed
            => ctxs[threads[t].self.context].st = "live"
       /\ threads[t].pc = "release" => threads[t].destroyed

C4_Step ==
  \A c \in Ctxs : ctxs[c].st = "live" /\ ctxs'[c].st = "free"
                    => ctxs[c].rc = 0 /\ ~ctxs[c].forgotten

C4_ContextReleasedOnce == [](C4_Inv) /\ [][C4_Step]_vars

\* two threads are in calls on GGeom values that share a context, one of them
\* in drop between the engine's destroy and giving the reference up
C4_Witness ==
  \E t, u \in Threads :
    /\ t # u
    /\ threads[t].pc = "drop"
    /\ threads[t].destroyed
    /\ threads[u].pc \in Borrowing \cup {"drop"}
    /\ threads[u].self.context = threads[t].self.context

Makers == {"new_from_wkt", "new_from_hex", "new_from_wkb", "create_point", "create_line_string",
           "create_linear_ring", "create_polygon", "derived_unary", "derived_binary"}

\* C5: whenever the engine answers a constructor or a derived operation with
\* null, the call returns Err(NoConstructionFromNullPtr) and the caller holds
\* no GGeom it did not hold before; no GGeom held has a null ptr.
C5_Inv ==
  /\ \A i \in Held : geoms[i].ptr # Null
  /\ last.op \in Makers /\ last.null => last.res = "NoConstructionFromNullPtr"

C5_Step == last'.op \in Makers /\ last'.null => Range(geoms') \subseteq Range(geoms)

C5_NullNeverWrapped == [](C5_Inv) /\ [][C5_Step]_vars

\* the engine has answered create_line_string with null while a GGeom is held
C5_Witness ==
  /\ last.op = "create_line_string"
  /\ last.null
  /\ last.res = "NoConstructionFromNullPtr"
  /\ Len(geoms) > 0

Live(cs) == {c \in Ctxs : cs[c].st = "live"}

\* C6: clone of g gives a GGeom whose handle the engine has newly allocated,
\* different from g's and from every other live handle, and whose context is
\* g's (one reference more, no new native context); normalize or drop applied
\* to one GGeom leaves every other GGeom's handle alive and as it was.
C6_Clone ==
  last'.op = "clone" /\ last'.res = "Ok" =>
    \E n \in Range(geoms') :
      /\ n \notin Range(geoms)
      /\ Range(geoms') = Range(geoms) \cup {n}
      /\ handles[n.ptr].st = "free"
      /\ handles'[n.ptr].st = "live"
      /\ \A j \in Held : geoms[j].ptr # n.ptr /\ handles'[geoms[j].ptr] = handles[geoms[j].ptr]
      /\ \E i \in Held :
           /\ n.context = geoms[i].context
           /\ handles'[n.ptr].kind = handles[geoms[i].ptr].kind
           /\ handles'[n.ptr].norm = handles[geoms[i].ptr].norm
      /\ ctxs'[n.context].rc = ctxs[n.context].rc + 1
      /\ Live(ctxs') = Live(ctxs)

C6_Others ==
  /\ last'.op = "normalize" =>
       /\ geoms' = geoms
       /\ \E i \in Held : \A j \in Held \ {i} : handles'[geoms[j].ptr] = handles[geoms[j].ptr]
  /\ last'.op = "drop" =>
       /\ Len(geoms') = Len(geoms) - 1
       /\ \A g \in Range(geoms') :
            g \in Range(geoms) /\ handles'[g.ptr] = handles[g.ptr] /\ handles[g.ptr].st = "live"

C6_CloneIndependent == [][C6_Clone /\ C6_Others]_vars

\* a geometry and its clone, one of them normalized and the other not
C6_Witness ==
  /\ last.op = "normalize"
  /\ \E i, j \in Held :
       /\ geoms[i].context = geoms[j].context
       /\ handles[geoms[i].ptr].norm
       /\ ~handles[geoms[j].ptr].norm

Harm == Memory \cup {"engine_given_a_non_geometry"}

\* C7: after create_polygon has made a polygon, each of the N+1 rings it
\* consumed is part of the polygon and of nothing else: none has been left
\* out (leak), none destroyed besides (double free), and the engine was given
\* nothing but the rings.
C7_ChildrenAdoptedOnce ==
  last.op = "create_polygon" /\ last.res = "Ok" => last.errs \cap Harm = {}

Need(op) ==
  IF op = "create_multipolygon" THEN {"Polygon"}
  ELSE IF op = "create_multilinestring" THEN {"LineString"}
  ELSE IF op = "create_multipoint" THEN {"Point"}
  ELSE {}

Checked == {"create_multipolygon", "create_multilinestring", "create_multipoint"}

\* what a call that drops a composite reports of a composition made before it:
\* the context reference that composition forgot is never given back
Inherited == {"context_leaked"}

\* C8: create_multipolygon, create_multilinestring and create_multipoint return
\* Err(ImpossibleOperation) exactly when a child is not of the kind required,
\* and then without a composing engine call and without a child adopted,
\* forgotten, leaked or destroyed twice; create_geometrycollection never
\* returns it.
C8_KindCheckFirst ==
  /\ last.op \in Checked =>
       (last.res = "ImpossibleOperation" <=> ~(last.kinds \subseteq Need(last.op)))
  /\ last.res = "ImpossibleOperation" =>
       /\ last.op \in Checked
       /\ "GEOSGeom_createCollection_r" \notin last.calls
       /\ last.errs \subseteq Inherited
  /\ last.op = "create_geometrycollection" => last.res # "ImpossibleOperation"

\* create_multipolygon has been given a polygon and something else
C8_Witness ==
  /\ last.op = "create_multipolygon"
  /\ last.res = "ImpossibleOperation"
  /\ "Polygon" \in last.kinds
  /\ Cardinality(last.kinds) = 2

C9_Step ==
  last'.res = "ImpossibleOperation" =>
    /\ Range(geoms') \subseteq Range(geoms)
    /\ Len(geoms') < Len(geoms)
    /\ \A g \in Range(geoms) \ Range(geoms') : handles'[g.ptr].st = "free"
    /\ \A g \in Range(geoms') : handles'[g.ptr] = handles[g.ptr]
    /\ last'.errs \subseteq Inherited
    /\ last'.calls = {"GEOSGeom_destroy_r"}

Fallible == {"intersects", "crosses", "disjoint", "touches", "overlaps", "within", "covers",
             "covered_by", "contains", "equals", "equals_exact", "is_empty", "is_simple",
             "is_ring", "is_closed", "has_z"}

\* C10: every fallible boolean predicate gives Ok(false) for the engine's 0,
\* Ok(true) for 1 and Err(GeosError) for any other code.
C10_PredicateCodes ==
  last.op \in Fallible =>
    last.res = (IF last.rv = 0 THEN "Ok(false)"
                ELSE IF last.rv = 1 THEN "Ok(true)"
                ELSE "Err(GeosError)")

\* has_z has been answered with the error sentinel
C10_Witness == last.op = "has_z" /\ last.rv = 2 /\ last.res = "Err(GeosError)"

\* --------------------------------------------------------- scalar measures
\* the numbers the engine writes as a measure
Measures == 0..MaxCode

\* check_ret: Ok(()) for the engine's 1, Err(GeosError) carrying the status for
\* any other
check_ret(ret) ==
  IF ret = 1 THEN [ok |-> TRUE, res |-> "Ok", val |-> 0]
  ELSE [ok |-> FALSE, res |-> "Err(GeosError)", val |-> ret]

\* the output slot after the engine call: `let mut n = 0.;` unless the engine
\* wrote to it, which it does when it answers 1 and may do when it does not
SlotAfter(rv, wrote, touched) == IF rv = 1 \/ touched THEN wrote ELSE 0

EngineWrote(rv, wrote, touched) == IF rv = 1 \/ touched THEN <<wrote>> ELSE <<>>

\* a measure of the receiver (and of a second geometry it borrows), taken
\* through the receiver's context; r is what the call returns
Measured(op, f, i, rv, wrote, touched, r) ==
  /\ i \in Held
  /\ Commit(Through(World, geoms[i].context, f), geoms,
            [Call(op, r.res) EXCEPT !.rv = rv, !.val = r.val,
                                    !.slot = EngineWrote(rv, wrote, touched)])

\* a faulty area, which returns the slot whatever the status
area_unchecked(i, rv, wrote, touched) ==
  Measured("area", "GEOSArea_r", i, rv, wrote, touched,
           [res |-> "Ok", val |-> SlotAfter(rv, wrote, touched)])

\* GGeom::area: if res != 1 { Err(GeosError(..code res)) } else { Ok(n) }
area(i, rv, wrote, touched) ==
  Measured("area", "GEOSArea_r", i, rv, wrote, touched,
           IF rv # 1 THEN [res |-> "Err(GeosError)", val |-> rv]
           ELSE [res |-> "Ok", val |-> SlotAfter(rv, wrote, touched)])

\* check_ret(ret, ..).map(|_| length)
ViaCheckRet(op, f, i, rv, wrote, touched) ==
  LET c == check_ret(rv)
  IN Measured(op, f, i, rv, wrote, touched,
              IF c.ok THEN [res |-> "Ok", val |-> SlotAfter(rv, wrote, touched)]
              ELSE [res |-> c.res, val |-> c.val])

ViaCheckRet2(op, f, i, other, rv, wrote, touched) ==
  /\ other \in Held
  /\ ViaCheckRet(op, f, i, rv, wrote, touched)

length(i, rv, wrote, touched) == ViaCheckRet("length", "GEOSLength_r", i, rv, wrote, touched)

get_length(i, rv, wrote, touched) ==
  ViaCheckRet("get_length", "GEOSGeomGetLength_r", i, rv, wrote, touched)

distance(i, other, rv, wrote, touched) ==
  ViaCheckRet2("distance", "GEOSDistance_r", i, other, rv, wrote, touched)

distance_indexed(i, other, rv, wrote, touched) ==
  ViaCheckRet2("distance_indexed", "GEOSDistanceIndexed_r", i, other, rv, wrote, touched)

hausdorff_distance(i, other, rv, wrote, touched) ==
  ViaCheckRet2("hausdorff_distance", "GEOSHausdorffDistance_r", i, other, rv, wrote, touched)

hausdorff_distance_densify(i, other, rv, wrote, touched) ==
  ViaCheckRet2("hausdorff_distance_densify", "GEOSHausdorffDistanceDensify_r", i, other, rv,
               wrote, touched)

frechet_distance(i, other, rv, wrote, touched) ==
  ViaCheckRet2("frechet_distance", "GEOSFrechetDistance_r", i, other, rv, wrote, touched)

frechet_distance_densify(i, other, rv, wrote, touched) ==
  ViaCheckRet2("frechet_distance_densify", "GEOSFrechetDistanceDensify_r", i, other, rv,
               wrote, touched)

NextMeasure ==
  \/ \E answer \in Ring : new_from_wkt(TRUE, FALSE, answer)
  \/ \E i \in Held : drop(i)
  \/ \E i \in Held, rv \in Codes, wrote \in Measures, touched \in BOOLEAN :
       \/ area(i, rv, wrote, touched)
       \/ length(i, rv, wrote, touched)
       \/ get_length(i, rv, wrote, touched)
  \/ \E i, other \in Held, rv \in Codes, wrote \in Measures, touched \in BOOLEAN :
       \/ distance(i, other, rv, wrote, touched)
       \/ distance_indexed(i, other, rv, wrote, touched)
       \/ hausdorff_distance(i, other, rv, wrote, touched)
       \/ hausdorff_distance_densify(i, other, rv, wrote, touched)
       \/ frechet_distance(i, other, rv, wrote, touched)
       \/ frechet_distance_densify(i, other, rv, wrote, touched)

SpecMeasure == Init /\ [][NextMeasure]_vars

Scalar == {"area", "length", "get_length", "distance", "distance_indexed",
           "hausdorff_distance", "hausdorff_distance_densify", "frechet_distance",
           "frechet_distance_densify"}

\* C11: a scalar measure returns Ok exactly when the engine's status is 1, and
\* then the number it carries is the one the engine wrote to the output slot;
\* for any other status it returns Err(GeosError) carrying the status, so the 0.
\* the slot was initialised with is never returned as a measure.
C11_MeasureStatus ==
  last.op \in Scalar =>
    /\ last.res = "Ok" <=> last.rv = 1
    /\ last.res = "Ok" => last.slot = <<last.val>>
    /\ last.res # "Ok" => last.res = "Err(GeosError)" /\ last.val = last.rv

\* area has been refused with the status of an engine that wrote nothing
C11_Witness ==
  /\ last.op = "area"
  /\ last.rv = 2
  /\ last.slot = <<>>
  /\ last.res = "Err(GeosError)"

\* ---------------------------------------------------------------- equality
\* Result<bool>::unwrap_or_else(|_| false)
unwrap_or_false(r) == IF r = "Ok(true)" THEN "true" ELSE "false"

\* a faulty ==, which takes an engine error for equality
eq_or_true(i, other, rv) ==
  Query2("eq", "GEOSEquals_r", i, other, rv,
         IF check_geos_predicate(rv) = "Ok(false)" THEN "false" ELSE "true")

\* impl PartialEq for GGeom: self.equals(other).unwrap_or_else(|_| false)
eq(i, other, rv) ==
  Query2("eq", "GEOSEquals_r", i, other, rv, unwrap_or_false(check_geos_predicate(rv)))

\* the operations whose engine call can report a failure, with the ways
\* they return it
NextErr ==
  \/ \E answer \in Ring : new_from_wkt(TRUE, FALSE, answer)
  \/ \E i \in Held : drop(i)
  \/ \E i \in Held, rv \in Codes : is_empty(i, rv)
  \/ \E i \in Held, rv \in Codes : is_valid(i, rv)
  \/ \E i, other \in Held, rv \in Codes : equals(i, other, rv)
  \/ \E i, other \in Held, rv \in Codes : eq(i, other, rv)
  \/ \E i \in Held, rv \in Codes, wrote \in Measures, touched \in BOOLEAN :
       area(i, rv, wrote, touched)
  \/ \E i, other \in Held, rv \in Codes, wrote \in Measures, touched \in BOOLEAN :
       distance(i, other, rv, wrote, touched)

SpecErr == Init /\ [][NextErr]_vars

\* results a caller takes for an answer
Successes == {"Ok", "Ok(true)", "Ok(false)", "true", "false"}

Booleans == {"eq", "is_valid"}

\* the engine call of the last operation reported a failure: the error code of
\* a predicate, a status other than 1 of a measure, a null geometry
EngineFailed ==
  \/ last.op \in {"is_empty", "equals"} \cup Booleans /\ last.rv \notin {0, 1}
  \/ last.op \in Scalar /\ last.rv # 1
  \/ last.null

\* C12 as stated: whenever the engine call of an operation reports a failure,
\* the operation's result is an error, which no successful call returns.
C12_NoErrorSwallowed == EngineFailed => last.res \notin Successes

\* C12: a failure the engine reports is returned as an error by every
\* operation that returns a Result; the two operations that return a plain bool,
\* == and is_valid, return true for the engine's 1 and false for anything
\* else, the engine's error code included.
C12_SwallowedByBoolsOnly ==
  /\ EngineFailed /\ last.op \notin Booleans => last.res \notin Successes
  /\ last.op \in Booleans => last.res = (IF last.rv = 1 THEN "true" ELSE "false")

\* == has been answered by an engine error
C12_Witness == last.op = "eq" /\ last.rv = 2 /\ last.res = "false"

\* ------------------------------------------------------------- round trips
\* An external representation says in which format it is written and of what
\* geometry; the engine's reader of a format gives null for anything that is
\* not written in that format.
EngineWrite(fmt, h) == [fmt |-> fmt, kind |-> handles[h].kind]

EngineRead(fmt, ext) == IF ext.fmt = fmt THEN ext.kind ELSE "null"

\* GEOSEquals_r for two of the geometries hs the engine has
GEOSEquals_r(hs, h1, h2) == IF hs[h1].kind = hs[h2].kind THEN 1 ELSE 0

\* GGeom::to_wkt: the text GEOSGeomToWKT_r writes
to_wkt(g) == EngineWrite("wkt", g.ptr)

\* GGeom::to_wkb: Some(the bytes GEOSGeomToWKB_buf_r writes)
to_wkb(g) == EngineWrite("wkb", g.ptr)

\* a faulty to_hex, which gives the bytes and not their hexadecimal digits
to_hex_binary(g) == EngineWrite("wkb", g.ptr)

\* GGeom::to_hex: Some(the digits GEOSGeomToHEX_buf_r writes)
to_hex(g) == EngineWrite("hex", g.ptr)

\* GGeom::new_from_wkt(&g.to_wkt())
wkt_round_trip(i) == i \in Held /\ new_from_wkt(TRUE, FALSE, EngineRead("wkt", to_wkt(geoms[i])))

\* GGeom::new_from_wkb(g.to_wkb().expect(..).as_ref())
wkb_round_trip(i) == i \in Held /\ new_from_wkb(TRUE, EngineRead("wkb", to_wkb(geoms[i])))

\* GGeom::new_from_hex(g.to_hex().expect(..).as_ref())
hex_round_trip(i) == i \in Held /\ new_from_hex(TRUE, EngineRead("hex", to_hex(geoms[i])))

NextRound ==
  \/ \E out \in Outcomes : create_point(TRUE, out)
  \/ \E out \in Outcomes : create_line_string(TRUE, out)
  \/ \E out \in Outcomes : create_linear_ring(TRUE, out)
  \/ \E i \in Held : wkt_round_trip(i)
  \/ \E i \in Held : wkb_round_trip(i)
  \/ \E i \in Held : hex_round_trip(i)
  \/ \E i \in Held, ok \in BOOLEAN : normalize(i, ok)
  \/ \E i \in Held : drop(i)

SpecRound == Init /\ [][NextRound]_vars

\* the step has read back what it wrote of the i-th geometry held
RoundTrip(i) == wkt_round_trip(i) \/ wkb_round_trip(i) \/ hex_round_trip(i)

\* what a round trip of g has to leave behind
RoundTripped(g) ==
  /\ last'.res = "Ok"
  /\ Range(geoms) \subseteq Range(geoms')
  /\ handles'[g.ptr] = handles[g.ptr]
  /\ ctxs'[g.context] = ctxs[g.context]
  /\ \E g2 \in Range(geoms') \ Range(geoms) :
       /\ handles[g2.ptr].st = "free" /\ handles'[g2.ptr].st = "live"
       /\ ctxs[g2.context].st = "free" /\ ctxs'[g2.context].st = "live"
       /\ ctxs'[g2.context].rc = 1
       /\ check_geos_predicate(GEOSEquals_r(handles', g.ptr, g2.ptr)) = "Ok(true)"

NextDerived ==
  \/ \E initOk \in BOOLEAN, answer \in Ring : new_from_wkt(initOk, FALSE, answer)
  \/ \E i \in Held, ok \in BOOLEAN : clone(i, ok)
  \/ \E i \in Held, answer \in Ring : derived_unary(i, answer)
  \/ \E i, other \in Held, answer \in Ring : derived_binary(i, other, answer)
  \/ \E i \in Held : drop(i)

SpecDerived == Init /\ [][NextDerived]_vars

\* the step is a derived operation on the i-th geometry held
DerivedOf(i) ==
  \/ \E answer \in Ring : derived_unary(i, answer)
  \/ \E other \in Held, answer \in Ring : derived_binary(i, other, answer)

\* what a derived operation on self has to leave behind
DerivedFrame(self) ==
  /\ last'.calls = {"GEOS_derived_r"}
  /\ last'.errs = {}
  /\ Range(geoms) \subseteq Range(geoms')
  /\ \A g \in Range(geoms) : handles'[g.ptr] = handles[g.ptr]
  /\ \A c \in Ctxs : /\ ctxs'[c].st = ctxs[c].st
                     /\ c # self.context => ctxs'[c] = ctxs[c]
  /\ last'.res = "Ok" =>
       /\ ctxs'[self.context].rc = ctxs[self.context].rc + 1
       /\ \E g2 \in Range(geoms') :
            /\ \A g \in Range(geoms) : g2.ptr # g.ptr
            /\ handles[g2.ptr].st = "free" /\ handles'[g2.ptr].st = "live"
            /\ g2.context = self.context
            /\ Len(geoms') = Len(geoms) + 1
  /\ last'.res # "Ok" =>
       /\ last'.res = "NoConstructionFromNullPtr"
       /\ geoms' = geoms /\ handles' = handles /\ ctxs' = ctxs

\* C14: a derived operation calls the engine through self's context, which is
\* live; on success the caller has one more GGeom, with a handle the engine
\* has just made and self's context, counted once more and no context made;
\* on a null answer nothing changes; and self and every other geometry held,
\* in self's context or in another, keep their handles, unchanged.
C14_DerivedFrame == [][\A i \in Held : DerivedOf(i) => DerivedFrame(geoms[i])]_vars

\* a binary operation has succeeded on two geometries of different contexts
C14_Witness ==
  /\ last.op = "derived_binary"
  /\ last.res = "Ok"
  /\ Len(geoms) = 3
  /\ Cardinality({geoms[i].context : i \in Held}) = 2

\* ------------------------------------- constructors from a representation
NextText ==
  \/ \E initOk, nul \in BOOLEAN, answer \in Parts : new_from_wkt(initOk, nul, answer)
  \/ \E initOk \in BOOLEAN, answer \in Parts : new_from_hex(initOk, answer)
  \/ \E initOk \in BOOLEAN, answer \in Parts : new_from_wkb(initOk, answer)
  \/ \E i \in Held : drop(i)

SpecText == Init /\ [][NextText]_vars

Readers == {"new_from_wkt", "new_from_hex", "new_from_wkb"}

\* C15 as stated: a constructor from an external representation returns a
\* GGeom or Err(NoConstructionFromNullPtr), and ends in no other way.
C15_SingleFailure ==
  last.op \in Readers => last.res \in {"Ok", "NoConstructionFromNullPtr"}

C15_Step ==
  last'.op \in Readers =>
    /\ last'.res \in {"Ok", "NoConstructionFromNullPtr", "InitializationError", "panic"}
    /\ last'.res = "NoConstructionFromNullPtr" <=> last'.null
    /\ last'.res = "InitializationError" => last'.calls = {}
    /\ last'.res = "panic" => last'.op = "new_from_wkt" /\ last'.calls = {}
    /\ last'.res = "Ok" => Len(geoms') = Len(geoms) + 1
    /\ last'.res # "Ok" => geoms' = geoms /\ handles' = handles /\ ctxs' = ctxs

\* C15: new_from_wkt, new_from_hex and new_from_wkb return a GGeom, or
\* Err(NoConstructionFromNullPtr) exactly when the engine's answer is null, or
\* the error of GContextHandle::init before any engine call; new_from_wkt
\* panics on a text with a 0 byte in it; whenever no GGeom is returned, no
\* geometry, handle or context is left behind.
C15_FailureModes == [][C15_Step]_vars

\* new_from_hex has failed because no context could be made
C15_Witness == last.op = "new_from_hex" /\ last.res = "InitializationError" /\ Len(geoms) = 1

\* ------------------------------------------ coordinate sequence ownership
NextSeq ==
  \/ \E initOk \in BOOLEAN, out \in Outcomes : create_point(initOk, out)
  \/ \E initOk \in BOOLEAN, out \in Outcomes : create_line_string(initOk, out)
  \/ \E initOk \in BOOLEAN, out \in Outcomes : create_linear_ring(initOk, out)
  \/ \E i \in Held : drop(i)

SpecSeq == Init /\ [][NextSeq]_vars

FromSeqs == {"create_point", "create_line_string", "create_linear_ring"}

\* what a constructor did with the sequence it was given: the engine got a
\* copy made with GEOSCoordSeq_clone_r, or the caller's buffer itself
Policy(call) ==
  IF "GEOSCoordSeq_clone_r" \in call.calls THEN "deep_copy" ELSE "hand_over"

\* C16: any two calls of create_point, create_line_string and
\* create_linear_ring that make a geometry treat the coordinate sequence they
\* are given in the same way: both give the engine a copy, or both give it the
\* caller's buffer.
C16_OnePolicy ==
  [][last.op \in FromSeqs /\ last.res = "Ok" /\ last'.op \in FromSeqs /\ last'.res = "Ok"
       => Policy(last') = Policy(last)]_vars

\* ------------------------------------------------------------ get_coord_seq
\* an engine entry point that takes no context and works on the process-wide
\* state
Bare(w, f) == Fault(Called(w, f), "called_without_context")

\* struct CoordSeq: the pointer to a native sequence the value owns
CoordSeq(p) == [ptr |-> p]

\* the address of the coordinate sequence that is part of the geometry h,
\* which GEOSGeom_getCoordSeq returns: the geometry's, and no buffer of its own
Inner(h) == 0 - h

\* CoordSeq::new_from_raw: Err(NoConstructionFromNullPtr) for a null pointer
CoordSeq_new_from_raw(t) ==
  IF t = Null THEN [ok |-> FALSE, err |-> "NoConstructionFromNullPtr"]
  ELSE [ok |-> TRUE, err |-> "Ok", seq |-> CoordSeq(t)]

\* Drop for CoordSeq: GEOSCoordSeq_destroy on its pointer. A sequence that is
\* part of a geometry is the geometry's to free, with itself: the wrapper
\* freeing it is one free too many, before the geometry's destroy or after it.
SeqFree(w, p) ==
  IF p \in Bufs THEN BufFree(w, p) ELSE Fault(w, "sequence_of_geometry_freed")

\* a CoordSeq the program holds goes out of scope
drop_seq(k) ==
  /\ k \in DOMAIN seqs
  /\ Commit(SeqFree([World EXCEPT !.seqs = [j \in 1..(Len(seqs) - 1) |->
                                              IF j < k THEN seqs[j] ELSE seqs[j + 1]]],
                    seqs[k].ptr),
            geoms, Call("drop_seq", "Ok"))

\* a faulty get_coord_seq, which wraps the geometry's own sequence
get_coord_seq_borrowed(i, ok) ==
  /\ i \in Held
  /\ Len(seqs) < MaxBufs
  /\ LET self == geoms[i]
         w0 == Through(World, self.context, "GEOSGeomTypeId_r")
         w1 == Bare(w0, "GEOSGeom_getCoordSeq")
         r == CoordSeq_new_from_raw(IF ok THEN Inner(self.ptr) ELSE Null)
     IN IF geometry_type(self) \in {"Point", "LineString", "LinearRing"}
          THEN Commit(IF r.ok THEN [w1 EXCEPT !.seqs = Append(@, r.seq)] ELSE w1, geoms,
                      [Call("get_coord_seq", r.err) EXCEPT !.null = ~ok])
          ELSE Commit(w0, geoms, Call("get_coord_seq", "ImpossibleOperation"))

\* GGeom::get_coord_seq: GEOSCoordSeq_clone(GEOSGeom_getCoordSeq(self.as_raw()))
\* for a Point, LineString or LinearRing, wrapped by CoordSeq::new_from_raw.
\* ok: the engine made the copy.
get_coord_seq(i, ok) ==
  /\ i \in Held
  /\ LET self == geoms[i]
         w0 == Through(World, self.context, "GEOSGeomTypeId_r")
         w1 == Bare(Bare(w0, "GEOSGeom_getCoordSeq"), "GEOSCoordSeq_clone")
     IN IF geometry_type(self) \in {"Point", "LineString", "LinearRing"}
          THEN /\ ok => CanAllocBufs(World, 1)
               /\ LET t == IF ok THEN FreshBuf(w1) ELSE Null
                      r == CoordSeq_new_from_raw(t)
                      w2 == IF r.ok THEN [BufAlloc(w1) EXCEPT !.seqs = Append(@, r.seq)]
                            ELSE w1
                  IN Commit(w2, geoms,
                            [Call("get_coord_seq", r.err) EXCEPT !.null = ~ok])
          ELSE Commit(w0, geoms, Call("get_coord_seq", "ImpossibleOperation"))

NextCtx ==
  \/ \E initOk \in BOOLEAN, answer \in Parts : new_from_wkt(initOk, FALSE, answer)
  \/ \E initOk \in BOOLEAN, out \in Outcomes : create_point(initOk, out)
  \/ \E initOk \in BOOLEAN, out \in Outcomes : create_line_string(initOk, out)
  \/ \E initOk \in BOOLEAN, out \in Outcomes : create_linear_ring(initOk, out)
  \/ \E i \in Held, ok \in BOOLEAN : get_coord_seq(i, ok)
  \/ \E k \in DOMAIN seqs : drop_seq(k)
  \/ \E i \in Held : set_context_handle(i)
  \/ \E i \in Held : drop(i)

SpecCtx == Init /\ [][NextCtx]_vars

\* C17: every engine entry point an operation calls is called with a native
\* context, and with one that has not been released.
C17_AlwaysThroughContext ==
  /\ "called_without_context" \notin last.errs
  /\ "context_used_after_release" \notin last.errs

\* ------------------------------------------- what create_polygon passes on
\* the array of the handles of the interiors, in their order
HandlesOf(interiors) == [k \in DOMAIN interiors |-> Word("geom", interiors[k].ptr)]

\* C18: the engine call of create_polygon is given, for its holes, an array
\* of N pointers that are the native handles of the N interiors, in the order
\* of the vector, whatever N is and however the compiler lays a GGeom out.
C18_HolesAreTheInteriors ==
  [][last'.op = "create_polygon" =>
       \A e \in Held : \A ints \in Vecs(Held \ {e}, MaxGeoms - 1) :
         \A layout \in LayoutsRead(ints) : \A out \in Outcomes :
           create_polygon(e, ints, layout, out) =>
             LET interiors == [k \in DOMAIN ints |-> geoms[ints[k]]]
             IN as_mut_ptr(interiors, Len(ints), layout) = HandlesOf(interiors)]_vars

\* ---------------------------------------------------------------- normalize
\* C19: normalize reports success (an Ok that does not say false) exactly when
\* the engine's call succeeded, answering 0, and an error for every other
\* status, as a call translated with check_ret does for its success status.
C19_NormalizeTwoValued ==
  last.op = "normalize" =>
    /\ last.res \in {"Ok", "Ok(true)"} <=> last.rv = 0
    /\ last.rv # 0 => last.res = "Err(GeosError)"

\* ------------------------------------------------------- readers and writers
\* the rounding precisions a caller asks for: none, or Some(x)
Precisions == {<<>>} \cup {<<x>> : x \in Codes}

\* a faulty to_wkt_precision, which leaves the writer behind when the write
\* gave nothing
to_wkt_precision_leaky(i, precision, ok) ==
  /\ i \in Held
  /\ LET self == geoms[i]
         calls == <<"GEOSWKTWriter_create_r">>
                    \o (IF precision # <<>> THEN <<"GEOSWKTWriter_setRoundingPrecision_r">>
                        ELSE <<>>)
                    \o <<"GEOSWKTWriter_write_r">>
                    \o (IF ok THEN <<"GEOSWKTWriter_destroy_r">> ELSE <<>>)
     IN Commit(ThroughEach(World, self.context, calls), geoms,
               [Call("to_wkt_precision", IF ok THEN "String" ELSE "null")
                  EXCEPT !.null = ~ok, !.trace = calls])

\* GGeom::to_wkt_precision; ok: the writer gave a text, which managed_string
\* makes a String of
to_wkt_precision(i, precision, ok) ==
  /\ i \in Held
  /\ LET self == geoms[i]
         calls == <<"GEOSWKTWriter_create_r">>
                    \o (IF precision # <<>> THEN <<"GEOSWKTWriter_setRoundingPrecision_r">>
                        ELSE <<>>)
                    \o <<"GEOSWKTWriter_write_r", "GEOSWKTWriter_destroy_r">>
     IN Commit(ThroughEach(World, self.context, calls), geoms,
               [Call("to_wkt_precision", IF ok THEN "String" ELSE "null")
                  EXCEPT !.null = ~ok, !.trace = calls])

NextWkt ==
  \/ \E initOk, nul \in BOOLEAN, answer \in Parts : new_from_wkt(initOk, nul, answer)
  \/ \E i \in Held, precision \in Precisions, ok \in BOOLEAN : to_wkt_precision(i, precision, ok)
  \/ \E i \in Held : drop(i)

SpecWkt == Init /\ [][NextWkt]_vars

\* the places of the call f in the trace tr
Places(tr, f) == {k \in DOMAIN tr : tr[k] = f}

\* the trace tr creates a resource first, uses it once and destroys it once,
\* last
Scoped(tr, create, use, destroy) ==
  /\ Places(tr, create) = {1}
  /\ Cardinality(Places(tr, use)) = 1
  /\ Places(tr, destroy) = {Len(tr)}
  /\ \A k \in Places(tr, use) : 1 < k /\ k < Len(tr)

C20_Writer(precision) ==
  /\ Scoped(last'.trace, "GEOSWKTWriter_create_r", "GEOSWKTWriter_write_r",
            "GEOSWKTWriter_destroy_r")
  /\ Cardinality(Places(last'.trace, "GEOSWKTWriter_setRoundingPrecision_r"))
       = (IF precision # <<>> THEN 1 ELSE 0)
  /\ \A k \in Places(last'.trace, "GEOSWKTWriter_setRoundingPrecision_r") :
       \A j \in Places(last'.trace, "GEOSWKTWriter_write_r") : k < j
  /\ last'.errs = {}

C20_Reader ==
  /\ Scoped(last'.trace, "GEOSWKTReader_create_r", "GEOSWKTReader_read_r",
            "GEOSWKTReader_destroy_r")
  /\ Len(last'.trace) = 3
  /\ last'.errs = {}

\* C20: to_wkt_precision creates the writer, sets the rounding precision
\* before the write exactly when one was supplied, writes once and destroys
\* the writer once, after the write, whether or not the write gave a text;
\* new_from_wkt creates the reader, reads once and destroys the reader once,
\* whether it returns a GGeom or Err(NoConstructionFromNullPtr).
C20_ScopedReaderWriter ==
  [][/\ \A i \in Held : \A precision \in Precisions : \A ok \in BOOLEAN :
          to_wkt_precision(i, precision, ok) => C20_Writer(precision)
     /\ last'.op = "new_from_wkt" /\ last'.res \in {"Ok", "NoConstructionFromNullPtr"}
          => C20_Reader]_vars

\* a write with a precision has given nothing, and the writer is destroyed
C20_Witness ==
  /\ last.op = "to_wkt_precision"
  /\ last.null
  /\ Len(last.trace) = 4

\* ------------------------------------------------------- contexts given back
\* C21: no native context is leaked: no call leaves a native context alive
\* that no GGeom refers to any more and that no reference still to be dropped
\* will release; so for the contexts of the rings create_polygon consumed,
\* and for the context of a constructor that was answered with null.
C21_NoContextLeaked == "context_leaked" \notin last.errs

\* ------------------------------------------ coordinate sequences freed once
SeqMemory == {"sequence_freed_twice", "sequence_leaked"}

NextCoord ==
  \/ \E initOk \in BOOLEAN, answer \in Parts : new_from_wkt(initOk, FALSE, answer)
  \/ \E initOk \in BOOLEAN, out \in Outcomes : create_linear_ring(initOk, out)
  \/ \E i \in Held, ok \in BOOLEAN : get_coord_seq(i, ok)
  \/ \E k \in DOMAIN seqs : drop_seq(k)
  \/ \E i \in Held : drop(i)

SpecCoord == Init /\ [][NextCoord]_vars

\* the engine entry points that read or make a coordinate sequence
SeqCalls == {"GEOSGeom_getCoordSeq", "GEOSCoordSeq_clone", "GEOSCoordSeq_clone_r"}

\* the kinds of geometry that are made of one coordinate sequence
HasCoordSeq == {"Point", "LineString", "LinearRing"}

OwnedOnce == SeqMemory \cup Memory \cup {"sequence_of_geometry_freed"}

C23_Inv ==
  /\ \A k \in DOMAIN seqs : seqs[k].ptr \in Bufs /\ bufs[seqs[k].ptr].st = "live"
  /\ \A j, k \in DOMAIN seqs : j # k => seqs[j].ptr # seqs[k].ptr
  /\ last.op \in {"get_coord_seq", "drop_seq", "drop"} => last.errs \cap OwnedOnce = {}

C23_Step ==
  \A i \in Held : \A ok \in BOOLEAN :
    get_coord_seq(i, ok) =>
      /\ geoms' = geoms
      /\ handles' = handles
      /\ IF handles[geoms[i].ptr].kind \notin HasCoordSeq
           THEN /\ last'.res = "ImpossibleOperation"
                /\ last'.calls \cap SeqCalls = {}
                /\ seqs' = seqs
                /\ bufs' = bufs
           ELSE IF ok
           THEN /\ last'.res = "Ok"
                /\ \E t \in Bufs :
                     /\ seqs' = Append(seqs, CoordSeq(t))
                     /\ t # Inner(geoms[i].ptr)
                     /\ bufs[t].st = "free"
                     /\ bufs' = [bufs EXCEPT ![t] = [st |-> "live"]]
           ELSE /\ last'.res = "NoConstructionFromNullPtr"
                /\ seqs' = seqs
                /\ bufs' = bufs

\* C23: get_coord_seq on a geometry that is no Point, LineString or LinearRing
\* returns Err(ImpossibleOperation) and no engine call has read or made a
\* coordinate sequence; on one of those kinds the CoordSeq returned owns a
\* buffer newly made by the engine, never the sequence that is part of the
\* geometry, and with the geometry and the CoordSeq values dropped in any
\* order every buffer and every geometry is freed once.
C23_CoordSeqIsACopy == [](C23_Inv) /\ [][C23_Step]_vars

\* the geometry has been dropped while a sequence taken from it is still held
C23_Witness == last.op = "drop" /\ geoms = <<>> /\ Len(seqs) = 1

\* ------------------------------------------------- threads inside the engine
\* a faulty is_valid, which waits until no other thread is inside an engine
\* call on the same context
is_valid_enter_locked(t, i) ==
  /\ threads[t].pc = "idle"
  /\ i \in Held
  /\ \A u \in Threads \ {t} :
       ~(threads[u].pc = "is_valid" /\ threads[u].self.context = geoms[i].context)
  /\ CommitT(Through(World, geoms[i].context, "GEOSisValid_r"), geoms,
             At(t, "is_valid", geoms[i], Null), Call("is_valid_enter", "Ok"))

\* GGeom::is_valid in thread t, up to the entry into
\* GEOSisValid_r(self.context.as_raw(), self.as_raw()): &self is all it takes
is_valid_enter(t, i) ==
  /\ threads[t].pc = "idle"
  /\ i \in Held
  /\ CommitT(Through(World, geoms[i].context, "GEOSisValid_r"), geoms,
             At(t, "is_valid", geoms[i], Null), Call("is_valid_enter", "Ok"))

\* the engine answers, and is_valid returns `.. == 1`
is_valid_leave(t, rv) ==
  /\ threads[t].pc = "is_valid"
  /\ CommitT(World, geoms, [threads EXCEPT ![t] = Idle],
             [Call("is_valid", IF rv = 1 THEN "true" ELSE "false") EXCEPT !.rv = rv])

\* threads asking geometries that share contexts whether they are valid,
\* while geometries are made, cloned and dropped
NextRace ==
  \/ \E initOk \in BOOLEAN, answer \in Ring : new_from_wkt(initOk, FALSE, answer)
  \/ \E i \in Held, ok \in BOOLEAN : clone(i, ok)
  \/ \E t \in Threads, i \in Held : is_valid_enter(t, i)
  \/ \E t \in Threads, rv \in Codes : is_valid_leave(t, rv)
  \/ \E t \in Threads, i \in Held : drop_call(t, i)
  \/ \E t \in Threads : drop_step(t)
  \/ \E t \in Threads : release(t)

SpecRace == Init /\ [][NextRace]_vars

\* C24: no engine call waits for another: whenever a thread is inside an
\* engine call on a native context, any other thread that is in no call can
\* enter an engine call on a GGeom with the same context, so that both are
\* inside the engine on that context at the same time.
C24_NoMutualExclusion ==
  \A t, u \in Threads : \A i \in Held :
    /\ t # u
    /\ threads[t].pc = "idle"
    /\ threads[u].pc = "is_valid"
    /\ threads[u].self.context = geoms[i].context
    => ENABLED is_valid_enter(t, i)

\* two threads are inside GEOSisValid_r on two GGeom values, a geometry and
\* its clone, that share one native context
C24_Witness ==
  \E t, u \in Threads :
    /\ t # u
    /\ threads[t].pc = "is_valid"
    /\ threads[u].pc = "is_valid"
    /\ threads[t].self.ptr # threads[u].self.ptr
    /\ threads[t].self.context = threads[u].self.context
    /\ ctxs[threads[t].self.context].st = "live"
====
